---- MODULE Spec2Model ----
(***************************************************************************)
(* Model of pkg/restapi/didmethod/operation/operations.go: the register    *)
(* handler (one pass over the submitted public keys, then the backend      *)
(* create call), the resolve handler and the mode router.                  *)
(*                                                                         *)
(* One behaviour is one handler invocation.  The register handler is       *)
(* followed statement by statement: registerDIDBegin is lines 95-116,      *)
(* registerDIDKey one iteration of the loop of lines 119-199 and           *)
(* registerDIDCreate lines 201-223.                                        *)
(***************************************************************************)
EXTENDS Integers, Sequences, FiniteSets, TLC

VARIABLES
    pc,            \* position of the handler: "idle", "keys", "create", "done"
    handler,       \* which operation was invoked: "", "register", "resolve", "handlers"
    data,          \* the decoded RegisterDIDRequest (register)
    idx,           \* number of publicKeys entries the loop has taken up
    visited,       \* the positions of the entries taken up by the loop, in order
    didDoc,        \* the did.Doc draft under construction
    didMethodOpt,  \* the options collected for blocVDRI.Create
    keysID,        \* map[string][]byte: key id -> submitted key bytes
    rw,            \* the responses written to the http.ResponseWriter, in order
    created,       \* the calls made to blocVDRI.Create, in order
    query,         \* the values of the "did" query parameter (resolve)
    backend,       \* what blocVDRI.Read / JSONBytes would answer (resolve)
    reads,         \* the calls made to blocVDRI.Read, in order
    routed         \* the result of GetRESTHandlers

vars == <<pc, handler, data, idx, visited, didDoc, didMethodOpt, keysID, rw,
          created, query, backend, reads, routed>>

(***************************************************************************)
(* Bounds of the model.                                                    *)
(***************************************************************************)
MaxKeys == 2

(***************************************************************************)
(* Constants of the program.                                               *)
(***************************************************************************)
registerBasePath == "/1.0"
registerPath == registerBasePath \o "/register"
resolveDIDEndpoint == "/resolveDID"
didLDJson == "application/did+ld+json"
invalidRequestErrMsg == "invalid request"
registrarMode == "registrar"
resolverMode == "resolver"
combinedMode == "combined"

StatusOK == 200
StatusBadRequest == 400
StatusInternalServerError == 500
MethodPost == "POST"
MethodGet == "GET"

Ed25519KeyType == "Ed25519"
P256KeyType == "P-256"
RegistrationStateFinished == "finished"
RegistrationStateFailure == "failed"

RecoveryPublicKeyOpt == "recoveryPublicKey"
UpdatePublicKeyOpt == "updatePublicKey"

KeyPurposeAuthentication == "authentication"
KeyPurposeAssertionMethod == "assertionMethod"
KeyPurposeKeyAgreement == "keyAgreement"
KeyPurposeCapabilityDelegation == "capabilityDelegation"
KeyPurposeCapabilityInvocation == "capabilityInvocation"

RecognizedPurposes ==
    {KeyPurposeAuthentication, KeyPurposeAssertionMethod, KeyPurposeKeyAgreement,
     KeyPurposeCapabilityDelegation, KeyPurposeCapabilityInvocation}

(***************************************************************************)
(* base64.StdEncoding.DecodeString.  A string is a tuple of one-character  *)
(* strings.  The result is [bytes, err]: err is -1 for no error, else the  *)
(* offset of the CorruptInputError.                                        *)
(***************************************************************************)
encodeStd ==
    << "A","B","C","D","E","F","G","H","I","J","K","L","M","N","O","P",
       "Q","R","S","T","U","V","W","X","Y","Z","a","b","c","d","e","f",
       "g","h","i","j","k","l","m","n","o","p","q","r","s","t","u","v",
       "w","x","y","z","0","1","2","3","4","5","6","7","8","9","+","/" >>

StdPadding == "="

NoError == 0 - 1

\* decodeMap[c]: the six-bit value of an alphabet character, 255 otherwise.
decodeMap(c) ==
    IF \E i \in 1..Len(encodeStd) : encodeStd[i] = c
    THEN (CHOOSE i \in 1..Len(encodeStd) : encodeStd[i] = c) - 1
    ELSE 255

\* The three bytes of four six-bit values, cut to n bytes.
QuantumBytes(d, n) ==
    LET val == d[1] * 262144 + d[2] * 4096 + d[3] * 64 + d[4]
        b == << val \div 65536, (val \div 256) % 256, val % 256 >>
    IN  SubSeq(b, 1, n)

\* decodeQuantum: si is the 0-based offset of the next character, j the
\* number of characters of the quantum read so far, d their values.
RECURSIVE decodeQuantum(_, _, _, _)
decodeQuantum(src, si, j, d) ==
    IF j = 4 THEN [nsi |-> si, bytes |-> QuantumBytes(d, 3), err |-> NoError]
    ELSE IF Len(src) = si
    THEN IF j = 0
         THEN [nsi |-> si, bytes |-> << >>, err |-> NoError]
         ELSE [nsi |-> si, bytes |-> << >>, err |-> si - j]
    ELSE LET in == src[si + 1]
             out == decodeMap(in)
         IN  IF out # 255
             THEN decodeQuantum(src, si + 1, j + 1, [d EXCEPT ![j + 1] = out])
             ELSE IF in # StdPadding
             THEN [nsi |-> si + 1, bytes |-> << >>, err |-> si]
             ELSE IF j < 2
             THEN [nsi |-> si + 1, bytes |-> << >>, err |-> si]
             ELSE IF j = 2 /\ si + 1 = Len(src)
             THEN [nsi |-> si + 1, bytes |-> << >>, err |-> Len(src)]
             ELSE IF j = 2 /\ src[si + 2] # StdPadding
             THEN [nsi |-> si + 2, bytes |-> << >>, err |-> si]
             ELSE LET end == IF j = 2 THEN si + 2 ELSE si + 1
                  IN  [nsi |-> end, bytes |-> QuantumBytes(d, j - 1),
                       err |-> IF end < Len(src) THEN end ELSE NoError]

RECURSIVE DecodeFrom(_, _, _)
DecodeFrom(src, si, acc) ==
    IF si >= Len(src) THEN [bytes |-> acc, err |-> NoError]
    ELSE LET q == decodeQuantum(src, si, 0, <<0, 0, 0, 0>>)
         IN  IF q.err # NoError
             THEN [bytes |-> acc \o q.bytes, err |-> q.err]
             ELSE IF Len(q.bytes) < 3
             THEN [bytes |-> acc \o q.bytes, err |-> NoError]
             ELSE DecodeFrom(src, q.nsi, acc \o q.bytes)

DecodeString(s) == DecodeFrom(s, 0, << >>)

CorruptInputError(n) == "illegal base64 data at input byte " \o ToString(n)

(***************************************************************************)
(* elliptic.Unmarshal(elliptic.P256(), value), on a curve of the same      *)
(* shape (y^2 = x^3 - 3x + b mod p) scaled to one-byte coordinates.        *)
(* Nil stands for a nil *big.Int.                                          *)
(***************************************************************************)
Nil == 0 - 1
CurveBitSize == 8
CurveP == 251
CurveB == 18

IsOnCurve(x, y) == (y * y) % CurveP = (x * x * x + (CurveP - 3) * x + CurveB) % CurveP

Unmarshal(value) ==
    LET byteLen == (CurveBitSize + 7) \div 8
        none == [X |-> Nil, Y |-> Nil]
    IN  IF Len(value) # 1 + 2 * byteLen THEN none
        ELSE IF value[1] # 4 THEN none
        ELSE IF value[2] >= CurveP \/ value[3] >= CurveP THEN none
        ELSE IF ~IsOnCurve(value[2], value[3]) THEN none
        ELSE [X |-> value[2], Y |-> value[3]]

NoKey == [kty |-> "", raw |-> << >>, X |-> Nil, Y |-> Nil]

\* getKey without its default arm: any other key type is taken as Ed25519.
getKeyNoDefault(keyType, value) ==
    IF keyType = P256KeyType
    THEN LET xy == Unmarshal(value)
         IN  [key |-> [kty |-> P256KeyType, raw |-> << >>, X |-> xy.X, Y |-> xy.Y],
              err |-> ""]
    ELSE [key |-> [kty |-> Ed25519KeyType, raw |-> value, X |-> Nil, Y |-> Nil],
          err |-> ""]

(***************************************************************************)
(* getKey.  The result is [key, err]; err = "" is a nil error.             *)
(***************************************************************************)

getKey(keyType, value) ==
    IF keyType = Ed25519KeyType
    THEN [key |-> [kty |-> Ed25519KeyType, raw |-> value, X |-> Nil, Y |-> Nil],
          err |-> ""]
    ELSE IF keyType = P256KeyType
    THEN LET xy == Unmarshal(value)
         IN  [key |-> [kty |-> P256KeyType, raw |-> << >>, X |-> xy.X, Y |-> xy.Y],
              err |-> ""]
    ELSE [key |-> NoKey, err |-> "invalid key type: " \o keyType]

(***************************************************************************)
(* jwksupport.JWKFromKey: marshalling an EC key whose X or Y is nil fails. *)
(***************************************************************************)
JWKFromKey(k) ==
    IF k.kty = P256KeyType /\ (k.X = Nil \/ k.Y = Nil)
    THEN [jwk |-> NoKey, err |-> "create JWK: invalid EC key (nil, or X/Y missing)"]
    ELSE [jwk |-> k, err |-> ""]

\* did.NewVerificationMethodFromJWK(v.ID, v.Type, "", jwk)
NewVerificationMethodFromJWK(id, type, controller, jwk) ==
    [ID |-> id, Type |-> type, Controller |-> controller, jsonWebKey |-> jwk]

\* did.NewReferencedVerification(vm, relationship)
NewReferencedVerification(vm, r) ==
    [VerificationMethod |-> vm, Relationship |-> r, Embedded |-> FALSE]

EmptyDoc ==
    [Authentication |-> << >>, AssertionMethod |-> << >>, KeyAgreement |-> << >>,
     CapabilityDelegation |-> << >>, CapabilityInvocation |-> << >>, Service |-> << >>]

\* The switch of lines 172-195 with two arms exchanged: assertionMethod keys
\* land in the authentication bucket.
PurposeBucketMixedUp(p) ==
    CASE p = KeyPurposeAuthentication -> "Authentication"
      [] p = KeyPurposeAssertionMethod -> "Authentication"
      [] p = KeyPurposeKeyAgreement -> "KeyAgreement"
      [] p = KeyPurposeCapabilityDelegation -> "CapabilityDelegation"
      [] p = KeyPurposeCapabilityInvocation -> "CapabilityInvocation"
      [] OTHER -> ""

(***************************************************************************)
(* The switch of lines 172-195: the bucket (and relationship) the arm of   *)
(* purpose p appends to, "" for the default arm.                           *)
(***************************************************************************)
PurposeBucket(p) ==
    CASE p = KeyPurposeAuthentication -> "Authentication"
      [] p = KeyPurposeAssertionMethod -> "AssertionMethod"
      [] p = KeyPurposeKeyAgreement -> "KeyAgreement"
      [] p = KeyPurposeCapabilityDelegation -> "CapabilityDelegation"
      [] p = KeyPurposeCapabilityInvocation -> "CapabilityInvocation"
      [] OTHER -> ""

\* The loop body with a default arm that skips the purpose.
AddPurposeSkipsUnknown(doc, vm, p) ==
    LET b == PurposeBucket(p)
    IN  IF b = ""
        THEN [doc |-> doc, err |-> ""]
        ELSE [doc |-> [doc EXCEPT ![b] = Append(@, NewReferencedVerification(vm, b))],
              err |-> ""]

\* Lines 171-196, one purpose p of v.Purposes: [doc, err].
AddPurpose(doc, vm, p) ==
    LET b == PurposeBucket(p)
    IN  IF b = ""
        THEN [doc |-> doc, err |-> "public key purpose " \o p \o " not supported"]
        ELSE [doc |-> [doc EXCEPT ![b] = Append(@, NewReferencedVerification(vm, b))],
              err |-> ""]

\* The loop of lines 171-196 over v.Purposes, from position n on.
RECURSIVE AddPurposes(_, _, _, _)
AddPurposes(doc, vm, purposes, n) ==
    IF n > Len(purposes) THEN [doc |-> doc, err |-> ""]
    ELSE LET r == AddPurpose(doc, vm, purposes[n])
         IN  IF r.err # "" THEN r
             ELSE AddPurposes(r.doc, vm, purposes, n + 1)

\* keysID[id] = value
MapPut(m, id, value) ==
    [k \in DOMAIN m \cup {id} |-> IF k = id THEN value ELSE m[k]]

EmptyMap == [k \in {} |-> << >>]

\* vdr.WithOption(name, k)
WithOption(name, k) == [name |-> name, value |-> k]

\* Lines 153-198: an ordinary key becomes a verification method, referenced
\* from the bucket of each of its purposes, and its bytes are tracked.
OrdinaryKey(v, k, value, doc, opts, keys) ==
    LET jwk == JWKFromKey(k)
        vm == NewVerificationMethodFromJWK(v.ID, v.Type, "", jwk.jwk)
        added == AddPurposes(doc, vm, v.Purposes, 1)
    IN  IF jwk.err # ""
        THEN [err |-> jwk.err, doc |-> doc, opts |-> opts, keys |-> keys]
        ELSE IF added.err # ""
        THEN [err |-> added.err, doc |-> added.doc, opts |-> opts, keys |-> keys]
        ELSE [err |-> "", doc |-> added.doc, opts |-> opts,
              keys |-> MapPut(keys, v.ID, value)]

\* Lines 141-151 without the continue statements: the key also goes the way
\* of an ordinary key.
RotationKeyFallsThrough(v, k, value, doc, opts, keys) ==
    OrdinaryKey(v, k, value, doc,
        Append(opts, WithOption(IF v.Recovery THEN RecoveryPublicKeyOpt
                                ELSE UpdatePublicKeyOpt, k)),
        keys)

\* Lines 141-151: a recovery or update key becomes an option of Create and
\* the loop continues with the next entry.
RotationKey(v, k, value, doc, opts, keys) ==
    IF v.Recovery
    THEN [err |-> "", doc |-> doc, keys |-> keys,
          opts |-> Append(opts, WithOption(RecoveryPublicKeyOpt, k))]
    ELSE [err |-> "", doc |-> doc, keys |-> keys,
          opts |-> Append(opts, WithOption(UpdatePublicKeyOpt, k))]

(***************************************************************************)
(* One iteration of the loop of lines 119-199 on entry v:                  *)
(* [err, doc, opts, keys]; err = "" when the iteration went through.       *)
(***************************************************************************)
ProcessEntry(v, doc, opts, keys) ==
    LET dec == DecodeString(v.Value)
        k == getKey(v.KeyType, dec.bytes)
        stop(reason) == [err |-> reason, doc |-> doc, opts |-> opts, keys |-> keys]
    IN  IF dec.err # NoError
        THEN stop("failed to decode public key value : " \o CorruptInputError(dec.err))
        ELSE IF k.err # "" THEN stop(k.err)
        ELSE IF v.Recovery \/ v.Update
        THEN RotationKey(v, k.key, dec.bytes, doc, opts, keys)
        ELSE OrdinaryKey(v, k.key, dec.bytes, doc, opts, keys)

(***************************************************************************)
(* base58.Encode (btcutil): the digits of the big-endian number, one "1"   *)
(* for every leading zero byte.                                            *)
(***************************************************************************)
alphabet ==
    << "1","2","3","4","5","6","7","8","9","A","B","C","D","E","F","G","H",
       "J","K","L","M","N","P","Q","R","S","T","U","V","W","X","Y","Z","a",
       "b","c","d","e","f","g","h","i","j","k","m","n","o","p","q","r","s",
       "t","u","v","w","x","y","z" >>

RECURSIVE BigInt(_, _)
BigInt(b, acc) == IF b = << >> THEN acc ELSE BigInt(Tail(b), acc * 256 + Head(b))

RECURSIVE Base58Digits(_)
Base58Digits(x) ==
    IF x = 0 THEN "" ELSE Base58Digits(x \div 58) \o alphabet[(x % 58) + 1]

RECURSIVE LeadingZeros(_)
LeadingZeros(b) ==
    IF b = << >> \/ Head(b) # 0 THEN "" ELSE "1" \o LeadingZeros(Tail(b))

Base58Encode(b) == LeadingZeros(b) \o Base58Digits(BigInt(b, 0))

(***************************************************************************)
(* createKeys: one Key per entry of the map.  Go ranges over a map in an   *)
(* unspecified order, so order is an input: a sequence listing the map's   *)
(* keys once each.                                                         *)
(***************************************************************************)
Key(keys, didID, k) ==
    [ID |-> didID \o "#" \o k, PublicKeyBase58 |-> Base58Encode(keys[k])]

createKeys(keys, didID, order) ==
    [n \in 1..Len(order) |-> Key(keys, didID, order[n])]

MapOrders(m) ==
    {o \in [1..Cardinality(DOMAIN m) -> DOMAIN m] :
        \A a, b \in DOMAIN o : a # b => o[a] # o[b]}

(***************************************************************************)
(* Responses.  writeResponse encodes a RegisterResponse as the body of a   *)
(* 200 response; writeErrorResponse writes a status and a plain message.   *)
(***************************************************************************)
NoSecret == [Keys |-> << >>]
NoDIDState == [Identifier |-> "", Reason |-> "", State |-> "", Secret |-> NoSecret]

writeResponse(jobID, didState) ==
    [kind |-> "json", status |-> StatusOK, contentType |-> "", msg |-> "",
     JobID |-> jobID, DIDState |-> didState]

writeErrorResponse(status, msg) ==
    [kind |-> "text", status |-> status, contentType |-> "", msg |-> msg,
     JobID |-> "", DIDState |-> NoDIDState]

writeDocument(bytes) ==
    [kind |-> "document", status |-> StatusOK, contentType |-> didLDJson, msg |-> bytes,
     JobID |-> "", DIDState |-> NoDIDState]

Failure(reason) ==
    [Identifier |-> "", Reason |-> reason, State |-> RegistrationStateFailure,
     Secret |-> NoSecret]

Finished(id, keys) ==
    [Identifier |-> id, Reason |-> "", State |-> RegistrationStateFinished,
     Secret |-> [Keys |-> keys]]

(***************************************************************************)
(* The inputs.                                                             *)
(***************************************************************************)
KeyIDs == {"k1", "k2"}
JobIDs == {"job-1"}

\* base64 of <<4, 1, 4>> (a point of the curve), of <<4, 1, 2>> (not a
\* point) and a string with a character outside the alphabet.
ValuePoint == << "B", "A", "E", "E" >>
ValueOther == << "B", "A", "E", "C" >>
ValueCorrupt == << "B", "A", "E", "!" >>

Values == {ValuePoint, ValueOther, ValueCorrupt}

Materials ==
    { <<Ed25519KeyType, ValuePoint>>, <<Ed25519KeyType, ValueOther>>,
      <<P256KeyType, ValuePoint>>, <<P256KeyType, ValueOther>>,
      <<"RSA", ValuePoint>>, <<"RSA", ValueCorrupt>> }

Roles ==
    { [Recovery |-> FALSE, Update |-> FALSE,
       Purposes |-> <<KeyPurposeAuthentication, KeyPurposeAssertionMethod>>],
      [Recovery |-> FALSE, Update |-> FALSE,
       Purposes |-> <<KeyPurposeKeyAgreement, KeyPurposeCapabilityDelegation>>],
      [Recovery |-> FALSE, Update |-> FALSE,
       Purposes |-> <<KeyPurposeCapabilityInvocation, "verification">>],
      [Recovery |-> TRUE, Update |-> FALSE, Purposes |-> <<"verification">>],
      [Recovery |-> FALSE, Update |-> TRUE, Purposes |-> <<KeyPurposeAuthentication>>],
      [Recovery |-> TRUE, Update |-> TRUE, Purposes |-> <<KeyPurposeAssertionMethod>>] }

KeyEntries ==
    { [ID |-> id, Type |-> "JsonWebKey2020", KeyType |-> m[1], Value |-> m[2],
       Purposes |-> r.Purposes, Recovery |-> r.Recovery, Update |-> r.Update] :
        id \in KeyIDs, m \in Materials, r \in Roles }

SeqsUpTo(S, n) == UNION { [1..k -> S] : k \in 0..n }

ServiceLists ==
    { << [ID |-> "svc", Type |-> "did-communication", Priority |-> 0,
          RecipientKeys |-> <<"k1">>, RoutingKeys |-> << >>,
          Endpoint |-> "https://agent.example.com"] >> }

Requests ==
    [JobID : JobIDs, PublicKey : SeqsUpTo(KeyEntries, MaxKeys), Service : ServiceLists]

NoRequest == [JobID |-> "", PublicKey |-> << >>, Service |-> << >>]

\* The identifiers blocVDRI.Create may assign.
BackendDIDs == {"did:trustbloc:testnet:abc", "did:trustbloc:testnet:xyz"}

Modes == {registrarMode, resolverMode, combinedMode, "", "Registrar", "registrar,resolver"}

DidParams == { << >>, << "" >>, << "did:trustbloc:abc" >>, << "", "did:trustbloc:abc" >>,
               << "did:trustbloc:abc", "" >> }

ReadAnswers == {"ok", "read error", "marshal error"}

(***************************************************************************)
(* Init: no handler invoked yet.                                           *)
(***************************************************************************)
NoRouted == [mode |-> "", handlers |-> << >>, err |-> ""]

Init ==
    /\ pc = "idle"
    /\ handler = ""
    /\ data = NoRequest
    /\ idx = 0
    /\ visited = << >>
    /\ didDoc = EmptyDoc
    /\ didMethodOpt = << >>
    /\ keysID = EmptyMap
    /\ rw = << >>
    /\ created = << >>
    /\ query = << >>
    /\ backend = ""
    /\ reads = << >>
    /\ routed = NoRouted

(***************************************************************************)
(* registerDIDHandler, lines 95-101: the body is not JSON.                 *)
(***************************************************************************)
registerDIDMalformed ==
    /\ pc = "idle"
    /\ pc' = "done"
    /\ handler' = "register"
    /\ rw' = Append(rw, writeErrorResponse(StatusBadRequest,
                          invalidRequestErrMsg \o ": " \o "unexpected EOF"))
    /\ UNCHANGED <<data, idx, visited, didDoc, didMethodOpt, keysID, created,
                   query, backend, reads, routed>>

\* The handler without the check of lines 106-112.
NoPublicKeysUnchecked(d) == FALSE

\* Lines 106-112: whether the handler stops on an empty publicKeys.
NoPublicKeys(d) == Len(d.PublicKey) = 0

(***************************************************************************)
(* registerDIDHandler, lines 95-116: the body decodes to a request.        *)
(***************************************************************************)
registerDIDBegin ==
    /\ pc = "idle"
    /\ \E d \in Requests :
        /\ data' = d
        /\ handler' = "register"
        /\ IF NoPublicKeys(d)
           THEN /\ rw' = Append(rw, writeResponse(d.JobID, Failure("AddPublicKeys is empty")))
                /\ pc' = "done"
           ELSE /\ rw' = rw
                /\ pc' = IF Len(d.PublicKey) = 0 THEN "create" ELSE "keys"
    /\ didDoc' = EmptyDoc
    /\ didMethodOpt' = << >>
    /\ keysID' = EmptyMap
    /\ UNCHANGED <<idx, visited, created, query, backend, reads, routed>>

\* An error branch without its return statement: the loop goes on.
AfterErrorGoesOn == "keys"

\* Where the loop goes after an iteration that ended in error.
AfterError == "done"

(***************************************************************************)
(* registerDIDHandler, lines 119-199: one iteration of the loop.           *)
(***************************************************************************)
registerDIDKey ==
    /\ pc = "keys"
    /\ idx < Len(data.PublicKey)
    /\ LET r == ProcessEntry(data.PublicKey[idx + 1], didDoc, didMethodOpt, keysID)
       IN  /\ idx' = idx + 1
           /\ visited' = Append(visited, idx + 1)
           /\ didDoc' = r.doc
           /\ didMethodOpt' = r.opts
           /\ keysID' = r.keys
           /\ IF r.err # ""
              THEN /\ rw' = Append(rw, writeResponse(data.JobID, Failure(r.err)))
                   /\ pc' = AfterError
              ELSE /\ rw' = rw
                   /\ pc' = IF idx + 1 = Len(data.PublicKey) THEN "create" ELSE "keys"
    /\ UNCHANGED <<handler, data, created, query, backend, reads, routed>>

\* Lines 202-206
AddServices(doc, services) == [doc EXCEPT !.Service = @ \o services]

(***************************************************************************)
(* registerDIDHandler, lines 201-223: services, blocVDRI.Create, response. *)
(* answer is "" for a backend error, else the identifier assigned.         *)
(***************************************************************************)
registerDIDCreate ==
    /\ pc = "create"
    /\ LET doc == AddServices(didDoc, data.Service)
       IN  /\ didDoc' = doc
           /\ \E answer \in BackendDIDs \cup {""} :
                /\ created' = Append(created,
                                  [doc |-> doc, opts |-> didMethodOpt, answer |-> answer])
                /\ IF answer = ""
                   THEN rw' = Append(rw, writeResponse(data.JobID,
                              Failure("failed to create did doc : " \o "backend error")))
                   ELSE \E order \in MapOrders(keysID) :
                        rw' = Append(rw, writeResponse(data.JobID,
                                 Finished(answer, createKeys(keysID, answer, order))))
    /\ pc' = "done"
    /\ UNCHANGED <<handler, data, idx, visited, didMethodOpt, keysID, query, backend,
                   reads, routed>>

\* Line 252 with the test of the value left out.
DidMissingOnlyAbsent(didParam) == didParam = << >>

\* Line 252: whether the did parameter counts as missing.
DidMissing(didParam) == didParam = << >> \/ didParam[1] = ""

(***************************************************************************)
(* resolveDIDHandler, lines 249-280.                                       *)
(***************************************************************************)
resolveDIDHandler ==
    /\ pc = "idle"
    /\ \E didParam \in DidParams, answer \in ReadAnswers :
        /\ query' = didParam
        /\ backend' = answer
        /\ IF DidMissing(didParam)
           THEN /\ rw' = Append(rw, writeErrorResponse(StatusBadRequest,
                                      "url param 'did' is missing"))
                /\ reads' = reads
           ELSE /\ reads' = Append(reads, didParam[1])
                /\ rw' = Append(rw,
                      IF answer = "read error"
                      THEN writeErrorResponse(StatusBadRequest,
                               "failed to resolve did: " \o "not found")
                      ELSE IF answer = "marshal error"
                      THEN writeErrorResponse(StatusInternalServerError,
                               "failed to marshal doc resolution: " \o "marshal failed")
                      ELSE writeDocument("document of " \o didParam[1]))
    /\ pc' = "done"
    /\ handler' = "resolve"
    /\ UNCHANGED <<data, idx, visited, didDoc, didMethodOpt, keysID, created, routed>>

(***************************************************************************)
(* The mode router, lines 299-324.                                         *)
(***************************************************************************)
NewHTTPHandler(path, method, handle) == [Path |-> path, Method |-> method, Handle |-> handle]

registrarHandlers == << NewHTTPHandler(registerPath, MethodPost, "registerDIDHandler") >>

resolverHandlers == << NewHTTPHandler(resolveDIDEndpoint, MethodGet, "resolveDIDHandler") >>

\* GetRESTHandlers with the two slices of the combined mode appended the
\* other way round.
GetRESTHandlersResolverFirst(mode) ==
    IF mode = registrarMode THEN [handlers |-> registrarHandlers, err |-> ""]
    ELSE IF mode = resolverMode THEN [handlers |-> resolverHandlers, err |-> ""]
    ELSE IF mode = combinedMode
    THEN [handlers |-> resolverHandlers \o registrarHandlers, err |-> ""]
    ELSE [handlers |-> << >>, err |-> "invalid operation mode: " \o mode]

GetRESTHandlers(mode) ==
    IF mode = registrarMode THEN [handlers |-> registrarHandlers, err |-> ""]
    ELSE IF mode = resolverMode THEN [handlers |-> resolverHandlers, err |-> ""]
    ELSE IF mode = combinedMode
    THEN [handlers |-> registrarHandlers \o resolverHandlers, err |-> ""]
    ELSE [handlers |-> << >>, err |-> "invalid operation mode: " \o mode]

GetHandlers ==
    /\ pc = "idle"
    /\ \E mode \in Modes :
        routed' = [mode |-> mode, handlers |-> GetRESTHandlers(mode).handlers,
                   err |-> GetRESTHandlers(mode).err]
    /\ pc' = "done"
    /\ handler' = "handlers"
    /\ UNCHANGED <<data, idx, visited, didDoc, didMethodOpt, keysID, rw, created,
                   query, backend, reads>>

Next ==
    \/ registerDIDMalformed
    \/ registerDIDBegin
    \/ registerDIDKey
    \/ registerDIDCreate
    \/ resolveDIDHandler
    \/ GetHandlers

Spec == Init /\ [][Next]_vars

(***************************************************************************)
(* Vocabulary of the properties, stated from the request alone.            *)
(***************************************************************************)
PublicKey == data.PublicKey

Decoded == handler = "register" /\ data # NoRequest

Ordinary(v) == ~v.Recovery /\ ~v.Update

\* What base64 decoding makes of each value a request may carry.
Decoding == [s \in Values |-> DecodeString(s)]

ValueOK(v) == Decoding[v.Value].err = NoError

Bytes(v) == Decoding[v.Value].bytes

KnownType(v) == v.KeyType \in {Ed25519KeyType, P256KeyType}

IsPoint(b) ==
    /\ Len(b) = 3
    /\ b[1] = 4
    /\ b[2] < CurveP
    /\ b[3] < CurveP
    /\ (b[3] * b[3] - (b[2] * b[2] * b[2] - 3 * b[2] + CurveB)) % CurveP = 0

BadPoint(v) == v.KeyType = P256KeyType /\ ValueOK(v) /\ ~IsPoint(Bytes(v))

UnknownAt(v, n) == v.Purposes[n] \notin RecognizedPurposes

HasUnknown(v) == \E n \in 1..Len(v.Purposes) : UnknownAt(v, n)

FirstUnknown(v) ==
    v.Purposes[CHOOSE n \in 1..Len(v.Purposes) :
                  UnknownAt(v, n) /\ \A m \in 1..(n - 1) : ~UnknownAt(v, m)]

\* The entries on which an iteration of the loop ends in error.
EntryFails(v) ==
    \/ ~ValueOK(v)
    \/ ~KnownType(v)
    \/ Ordinary(v) /\ (BadPoint(v) \/ HasUnknown(v))

FirstBad ==
    IF \E i \in 1..Len(PublicKey) : EntryFails(PublicKey[i])
    THEN CHOOSE i \in 1..Len(PublicKey) :
            EntryFails(PublicKey[i]) /\ \A j \in 1..(i - 1) : ~EntryFails(PublicKey[j])
    ELSE Len(PublicKey) + 1

IsFailure(r) ==
    /\ r.kind = "json"
    /\ r.DIDState.State = RegistrationStateFailure

IsFinished(r) ==
    /\ r.kind = "json"
    /\ r.DIDState.State = RegistrationStateFinished

FailureOf(reason) ==
    [kind |-> "json", status |-> 200, contentType |-> "", msg |-> "",
     JobID |-> data.JobID,
     DIDState |-> [Identifier |-> "", Reason |-> reason, State |-> "failed",
                   Secret |-> [Keys |-> << >>]]]

Buckets ==
    {"Authentication", "AssertionMethod", "KeyAgreement", "CapabilityDelegation",
     "CapabilityInvocation"}

TagOf(b) ==
    CASE b = "Authentication" -> "authentication"
      [] b = "AssertionMethod" -> "assertionMethod"
      [] b = "KeyAgreement" -> "keyAgreement"
      [] b = "CapabilityDelegation" -> "capabilityDelegation"
      [] b = "CapabilityInvocation" -> "capabilityInvocation"

KeyOf(v) ==
    IF v.KeyType = Ed25519KeyType
    THEN [kty |-> v.KeyType, raw |-> Bytes(v), X |-> Nil, Y |-> Nil]
    ELSE [kty |-> v.KeyType, raw |-> << >>,
          X |-> IF IsPoint(Bytes(v)) THEN Bytes(v)[2] ELSE Nil,
          Y |-> IF IsPoint(Bytes(v)) THEN Bytes(v)[3] ELSE Nil]

MethodOf(v) == [ID |-> v.ID, Type |-> v.Type, Controller |-> "", jsonWebKey |-> KeyOf(v)]

ReferenceOf(v, b) ==
    [VerificationMethod |-> MethodOf(v), Relationship |-> b, Embedded |-> FALSE]

\* The references the entries ks owe to bucket b: one for every occurrence of
\* the bucket's tag among the purposes of an ordinary key, in order.
RECURSIVE ExpectedRefs(_, _)
ExpectedRefs(ks, b) ==
    IF ks = << >> THEN << >>
    ELSE LET v == Head(ks)
             mine == SelectSeq(v.Purposes, LAMBDA p : p = TagOf(b))
         IN  (IF Ordinary(v) THEN [n \in 1..Len(mine) |-> ReferenceOf(v, b)] ELSE << >>)
             \o ExpectedRefs(Tail(ks), b)

\* The options the entries ks owe to Create, in order.
RECURSIVE ExpectedOpts(_)
ExpectedOpts(ks) ==
    IF ks = << >> THEN << >>
    ELSE LET v == Head(ks)
         IN  (IF v.Recovery THEN << [name |-> "recoveryPublicKey", value |-> KeyOf(v)] >>
              ELSE IF v.Update THEN << [name |-> "updatePublicKey", value |-> KeyOf(v)] >>
              ELSE << >>)
             \o ExpectedOpts(Tail(ks))

RECURSIVE PurposeCount(_)
PurposeCount(ks) ==
    IF ks = << >> THEN 0
    ELSE (IF Ordinary(Head(ks)) THEN Len(Head(ks).Purposes) ELSE 0) + PurposeCount(Tail(ks))

RefCount(doc) ==
    Len(doc.Authentication) + Len(doc.AssertionMethod) + Len(doc.KeyAgreement)
        + Len(doc.CapabilityDelegation) + Len(doc.CapabilityInvocation)

OrdinaryPositions == {i \in 1..Len(PublicKey) : Ordinary(PublicKey[i])}

(***************************************************************************)
(* C1: on successful creation the secret bundle has exactly one entry per  *)
(* ordinary key submitted (also when two ordinary keys carry the same id), *)
(* each with id <identifier>#<key id> and the base58 of the key's decoded  *)
(* bytes, and none for a recovery or update key.                           *)
(***************************************************************************)
C1_SecretBundlePerOrdinaryKey ==
    (Decoded /\ pc = "done" /\ IsFinished(rw[1])) =>
        LET st == rw[1].DIDState
        IN  /\ Len(st.Secret.Keys) = Cardinality(OrdinaryPositions)
            /\ \A i \in OrdinaryPositions :
                 \E n \in 1..Len(st.Secret.Keys) :
                    st.Secret.Keys[n] =
                        [ID |-> st.Identifier \o "#" \o PublicKey[i].ID,
                         PublicKeyBase58 |-> Base58Encode(Bytes(PublicKey[i]))]

\* The same for the requests whose ordinary keys carry pairwise distinct ids,
\* the case in which no entry of keysID is overwritten.
SecretBundleWithDistinctIds ==
    (\A i, j \in OrdinaryPositions : PublicKey[i].ID = PublicKey[j].ID => i = j)
        => C1_SecretBundlePerOrdinaryKey

(***************************************************************************)
(* C2 as stated: a request with a key entry, of any kind and at any        *)
(* position, that declares a purpose tag outside the five recognized ones  *)
(* fails as a whole and never reaches the backend create operation.        *)
(***************************************************************************)
C2_AnyUnknownPurposeFails ==
    (Decoded /\ \E i \in 1..Len(PublicKey) : HasUnknown(PublicKey[i])) =>
        /\ created = << >>
        /\ pc = "done" => IsFailure(rw[1])

(***************************************************************************)
(* C2, amended: when the loop reaches the purposes of an ordinary key      *)
(* entry (every earlier entry went through, the entry's value decodes and  *)
(* its key converts) and a tag of it is not recognized, the loop stops at  *)
(* that entry, the one response is the failure "public key purpose <tag>   *)
(* not supported" for the first such tag, and create is not invoked.       *)
(***************************************************************************)
C2_UnknownPurposeOfOrdinaryKeyFails ==
    Decoded =>
        \A i \in 1..Len(PublicKey) :
            LET v == PublicKey[i]
            IN  (/\ Ordinary(v) /\ HasUnknown(v)
                 /\ ValueOK(v) /\ KnownType(v) /\ ~BadPoint(v)
                 /\ \A j \in 1..(i - 1) : ~EntryFails(PublicKey[j]))
                =>  /\ created = << >>
                    /\ idx <= i
                    /\ pc \in {"keys", "done"}
                    /\ pc = "done" =>
                        /\ idx = i
                        /\ rw = << FailureOf("public key purpose " \o FirstUnknown(v)
                                             \o " not supported") >>

C2_Witness ==
    /\ Decoded /\ pc = "done" /\ idx = 2 /\ Len(PublicKey) = 2
    /\ Ordinary(PublicKey[2]) /\ HasUnknown(PublicKey[2])
    /\ rw = << FailureOf("public key purpose verification not supported") >>
    /\ Len(didDoc.CapabilityInvocation) = 1

(***************************************************************************)
(* C3: whatever its purposes and its position, a key entry flagged         *)
(* recovery or update puts no entry into any of the five buckets of the    *)
(* draft submitted to the backend: the buckets hold the references of the  *)
(* ordinary keys and nothing else, and the flagged keys are the options of *)
(* the create call, recovery if recovery is set, else update, in order.    *)
(***************************************************************************)
C3_RotationKeysOutsideBuckets ==
    Decoded =>
        \A c \in 1..Len(created) :
            /\ created[c].opts = ExpectedOpts(PublicKey)
            /\ RefCount(created[c].doc) = PurposeCount(PublicKey)
            /\ \A b \in Buckets : \A n \in 1..Len(created[c].doc[b]) :
                 \E i \in OrdinaryPositions :
                    created[c].doc[b][n] = ReferenceOf(PublicKey[i], b)

C3_Witness ==
    /\ Decoded /\ Len(created) = 1 /\ Len(PublicKey) = 2
    /\ PublicKey[1].Recovery /\ PublicKey[1].Update /\ Len(PublicKey[1].Purposes) > 0
    /\ PublicKey[2].Update /\ ~PublicKey[2].Recovery
    /\ PublicKey[2].Purposes = << "authentication" >>
    /\ created[1].opts[1].name = "recoveryPublicKey"
    /\ created[1].opts[2].name = "updatePublicKey"
    /\ RefCount(created[1].doc) = 0

(***************************************************************************)
(* C4 as stated: for every key entry whose keyType is neither Ed25519 nor  *)
(* P-256 the request fails with reason "invalid key type: <type>" and no   *)
(* later entry is processed.                                               *)
(***************************************************************************)
C4_InvalidKeyTypeReason ==
    (Decoded /\ pc = "done") =>
        \A i \in 1..Len(PublicKey) :
            ~KnownType(PublicKey[i]) =>
                /\ rw = << FailureOf("invalid key type: " \o PublicKey[i].KeyType) >>
                /\ idx <= i

(***************************************************************************)
(* C4, amended: a request with a key entry of another keyType never        *)
(* reaches create and ends in failure, and no entry behind that one is     *)
(* processed (decoded, referenced from a bucket, made an option, tracked); *)
(* the reason is "invalid key type: <type>" when the decoder is reached    *)
(* for that entry: every earlier entry went through and the entry's value  *)
(* is valid base64.                                                        *)
(***************************************************************************)
C4_InvalidKeyTypeStops ==
    Decoded =>
        \A i \in 1..Len(PublicKey) :
            ~KnownType(PublicKey[i]) =>
                /\ created = << >>
                /\ idx <= i
                /\ \A n \in 1..Len(visited) : visited[n] <= i
                /\ Len(didMethodOpt) <= Len(ExpectedOpts(SubSeq(PublicKey, 1, i - 1)))
                /\ RefCount(didDoc) <= PurposeCount(SubSeq(PublicKey, 1, i - 1))
                /\ DOMAIN keysID \subseteq
                      {PublicKey[j].ID : j \in {k \in OrdinaryPositions : k < i}}
                /\ pc \in {"keys", "done"}
                /\ pc = "done" => IsFailure(rw[1]) /\ Len(rw) = 1
                /\ (/\ pc = "done" /\ ValueOK(PublicKey[i])
                    /\ \A j \in 1..(i - 1) : ~EntryFails(PublicKey[j]))
                   =>  /\ idx = i
                       /\ rw = << FailureOf("invalid key type: "
                                            \o PublicKey[i].KeyType) >>

C4_Witness ==
    /\ Decoded /\ pc = "done" /\ Len(PublicKey) = 2 /\ idx = 1
    /\ PublicKey[1].KeyType = "RSA" /\ ValueOK(PublicKey[1])
    /\ ~EntryFails(PublicKey[2])
    /\ rw = << FailureOf("invalid key type: RSA") >>

(***************************************************************************)
(* C5: in the draft submitted to the backend every bucket holds, in the    *)
(* order the keys were submitted, one reference per ordinary key that      *)
(* names the bucket's tag; so an ordinary key with the two tags A and B    *)
(* has one reference in bucket A and one in bucket B, both to the one      *)
(* verification method built for the key, and none in the other buckets.   *)
(***************************************************************************)
C5_OneMethodReferencedPerPurpose ==
    Decoded =>
        \A c \in 1..Len(created) :
            /\ \A b \in Buckets : created[c].doc[b] = ExpectedRefs(PublicKey, b)
            /\ \A i \in OrdinaryPositions :
                 LET v == PublicKey[i]
                     before(b) == Len(ExpectedRefs(SubSeq(PublicKey, 1, i - 1), b))
                     upto(b) == Len(ExpectedRefs(SubSeq(PublicKey, 1, i), b))
                 IN  (Len(v.Purposes) = 2 /\ v.Purposes[1] # v.Purposes[2]) =>
                        \A b \in Buckets :
                            IF TagOf(b) \in {v.Purposes[1], v.Purposes[2]}
                            THEN /\ upto(b) = before(b) + 1
                                 /\ created[c].doc[b][upto(b)].VerificationMethod
                                        = MethodOf(v)
                                 /\ created[c].doc[b][upto(b)].Relationship = b
                            ELSE upto(b) = before(b)

C5_Witness ==
    /\ Decoded /\ Len(created) = 1 /\ Len(PublicKey) = 2
    /\ PublicKey[1].Purposes = << "authentication", "assertionMethod" >>
    /\ PublicKey[2].Purposes = << "authentication", "assertionMethod" >>
    /\ PublicKey[1].ID = "k2" /\ PublicKey[2].ID = "k1"
    /\ Len(created[1].doc.Authentication) = 2
    /\ Len(created[1].doc.AssertionMethod) = 2
    /\ created[1].doc.Authentication[1].VerificationMethod.ID = "k2"
    /\ created[1].doc.AssertionMethod[2].VerificationMethod.ID = "k1"
    /\ created[1].doc.KeyAgreement = << >>

(***************************************************************************)
(* C6: a request with empty publicKeys ends at once in the one response    *)
(* Failure("AddPublicKeys is empty") that carries the request's jobID and  *)
(* neither identifier nor secret; create is never invoked.                 *)
(***************************************************************************)
C6_EmptyPublicKeys ==
    (Decoded /\ Len(PublicKey) = 0) =>
        /\ pc = "done"
        /\ rw = << [kind |-> "json", status |-> 200, contentType |-> "", msg |-> "",
                    JobID |-> data.JobID,
                    DIDState |-> [Identifier |-> "", Reason |-> "AddPublicKeys is empty",
                                  State |-> "failed", Secret |-> [Keys |-> << >>]]] >>
        /\ created = << >>
        /\ visited = << >>

C6_Witness ==
    /\ Decoded /\ Len(PublicKey) = 0 /\ data.JobID \in JobIDs /\ pc = "done"
    /\ rw[1].DIDState.Reason = "AddPublicKeys is empty"

(***************************************************************************)
(* C7: resolution with a missing or empty did parameter answers 400 "url   *)
(* param 'did' is missing" whatever the backend would answer, and the      *)
(* backend read operation is not invoked.                                  *)
(***************************************************************************)
C7_MissingDidParameter ==
    (handler = "resolve" /\ (query = << >> \/ query[1] = "")) =>
        /\ rw = << [kind |-> "text", status |-> 400, contentType |-> "",
                    msg |-> "url param 'did' is missing", JobID |-> "",
                    DIDState |-> NoDIDState] >>
        /\ reads = << >>
        /\ backend \in ReadAnswers

C7_Witness ==
    /\ handler = "resolve" /\ query = << "", "did:trustbloc:abc" >> /\ backend = "ok"
    /\ rw[1].status = 400

(***************************************************************************)
(* C8: GetRESTHandlers yields the register handler alone for "registrar",  *)
(* the resolve handler alone for "resolver", both for "combined", register *)
(* first, and for any other mode no handler and the error "invalid         *)
(* operation mode: <mode>".                                                *)
(***************************************************************************)
C8_ModeRouting ==
    handler = "handlers" =>
        LET register == [Path |-> "/1.0/register", Method |-> "POST",
                         Handle |-> "registerDIDHandler"]
            resolve == [Path |-> "/resolveDID", Method |-> "GET",
                        Handle |-> "resolveDIDHandler"]
        IN  /\ routed.mode = "registrar" =>
                routed.handlers = << register >> /\ routed.err = ""
            /\ routed.mode = "resolver" =>
                routed.handlers = << resolve >> /\ routed.err = ""
            /\ routed.mode = "combined" =>
                routed.handlers = << register, resolve >> /\ routed.err = ""
            /\ routed.mode \notin {"registrar", "resolver", "combined"} =>
                /\ routed.handlers = << >>
                /\ routed.err = "invalid operation mode: " \o routed.mode

C8_Witness ==
    /\ handler = "handlers" /\ routed.mode = "combined"
    /\ Len(routed.handlers) = 2 /\ routed.handlers[1].Path = "/1.0/register"

(***************************************************************************)
(* C9: in registration the first error is terminal.  The loop takes up the *)
(* entries in order and never one behind the first entry that fails;       *)
(* create is invoked at most once and only after every entry went through; *)
(* exactly one response is written, when the handler is done; a response   *)
(* is Finished (identifier and secret bundle, after a successful create)   *)
(* or Failure (a reason, no identifier, no secret entry).                  *)
(***************************************************************************)
C9_FirstErrorTerminal ==
    handler = "register" =>
        /\ Len(rw) <= 1
        /\ pc = "done" <=> Len(rw) = 1
        /\ Len(created) <= 1
        /\ visited = [n \in 1..idx |-> n]
        /\ idx <= Len(PublicKey)
        /\ idx <= FirstBad
        /\ created # << >> =>
            /\ Len(PublicKey) > 0
            /\ idx = Len(PublicKey)
            /\ FirstBad = Len(PublicKey) + 1
            /\ pc = "done"
        /\ rw # << >> =>
            \/ /\ rw[1].kind = "text"
               /\ data = NoRequest /\ idx = 0 /\ created = << >>
               /\ rw[1].DIDState = NoDIDState
            \/ /\ IsFinished(rw[1])
               /\ Len(created) = 1
               /\ created[1].answer \in BackendDIDs
               /\ rw[1].DIDState.Identifier = created[1].answer
               /\ rw[1].DIDState.Reason = ""
               /\ rw[1].JobID = data.JobID
            \/ /\ IsFailure(rw[1])
               /\ rw[1] = FailureOf(rw[1].DIDState.Reason)
               /\ rw[1].DIDState.Reason # ""
               /\ \/ Len(PublicKey) = 0 /\ idx = 0 /\ created = << >>
                  \/ idx = FirstBad /\ created = << >>
                  \/ Len(created) = 1 /\ created[1].answer = ""

C9_Witness ==
    /\ Decoded /\ pc = "done" /\ Len(PublicKey) = 2 /\ idx = 1 /\ FirstBad = 1
    /\ ~ValueOK(PublicKey[1]) /\ ~EntryFails(PublicKey[2])
    /\ IsFailure(rw[1]) /\ created = << >>

(***************************************************************************)
(* C10: a P-256 key entry whose bytes are no uncompressed point of the     *)
(* curve makes the request fail, be the entry ordinary, recovery or        *)
(* update: the loop stops at it and the key never reaches create.          *)
(***************************************************************************)
C10_InvalidPointFails ==
    Decoded =>
        \A i \in 1..Len(PublicKey) :
            BadPoint(PublicKey[i]) =>
                /\ created = << >>
                /\ idx <= i
                /\ pc = "done" => IsFailure(rw[1])

\* The same for ordinary entries alone: the conversion to a JWK rejects the
\* key that getKey let through.
InvalidPointOfOrdinaryKeyFails ==
    Decoded =>
        \A i \in 1..Len(PublicKey) :
            (BadPoint(PublicKey[i]) /\ Ordinary(PublicKey[i])) =>
                /\ created = << >>
                /\ idx <= i
                /\ pc = "done" => IsFailure(rw[1])

====
